---- MODULE Spec2Model ----
(***************************************************************************)
(* Model of gnaf_loader.py: the truncate_tables and import_data commands.  *)
(* Every call a command makes on its collaborators (database.Database,     *)
(* cloud.Queue, cloud.CloudStorage) is appended to the call log `calls`.   *)
(* Text values that the code takes apart (key names, paths) are sequences  *)
(* of one-character strings; opaque names (buckets, tables) are strings.   *)
(***************************************************************************)
EXTENDS Integers, Sequences, FiniteSets, TLC

VARIABLES
    cmd,                \* the command being run: "truncate_tables" | "import_data"
    pc,                 \* position of the command in its code
    temp_dir,           \* argument temp_dir of import_data
    missing,            \* tables absent from the database
    queue,              \* ids of the messages held by the queue service
    body,               \* message id -> message['Body']
    delivered,          \* ids already handed to this run (not visible again)
    message,            \* local `message` (0 is None)
    message_body_json,  \* local `message_body_json`
    file_path,          \* local `file_path`
    idx,                \* position of the for loop of truncate_tables
    conn,               \* database connection: "NONE" | "OPEN" | "CLOSED"
    fk,                 \* foreign key checks: "enabled" | "disabled"
    fault,              \* the step whose fault ended the command ("" if none)
    calls               \* log of the calls made on the collaborators

vars == <<cmd, pc, temp_dir, missing, queue, body, delivered, message,
          message_body_json, file_path, idx, conn, fk, fault, calls>>

----------------------------------------------------------------------------
(* Bounds *)

MaxMsgs == 2

----------------------------------------------------------------------------
(* truncate_tables: the hardcoded list *)

tables ==
    << "public.address",
       "public.address_alias",
       "public.address_alias_type_aut",
       "public.address_default_geocode",
       "public.address_detail",
       "public.address_mesh_block_2011",
       "public.address_mesh_block_2016",
       "public.address_site",
       "public.address_site_geocode",
       "public.address_type_aut",
       "public.flat_type_aut",
       "public.geocode_reliability_aut",
       "public.geocode_type_aut",
       "public.geocoded_level_type_aut",
       "public.level_type_aut",
       "public.locality",
       "public.locality_alias",
       "public.locality_alias_type_aut",
       "public.locality_class_aut",
       "public.locality_neighbour",
       "public.locality_point",
       "public.mb_2011",
       "public.mb_2016",
       "public.mb_match_code_aut",
       "public.primary_secondary",
       "public.ps_join_type_aut",
       "public.state",
       "public.street_class_aut",
       "public.street_locality",
       "public.street_locality_alias",
       "public.street_locality_alias_type_aut",
       "public.street_locality_point",
       "public.street_suffix_aut",
       "public.street_type_aut" >>

----------------------------------------------------------------------------
(* Text helpers: os.path.basename and os.path.join (posix) *)

LastSlash(p) ==
    LET S == {i \in 1..Len(p) : p[i] = "/"}
    IN  IF S = {} THEN 0 ELSE CHOOSE i \in S : \A j \in S : j <= i

basename(p) == SubSeq(p, LastSlash(p) + 1, Len(p))

join(a, b) ==
    IF b # <<>> /\ b[1] = "/" THEN b
    ELSE IF a = <<>> \/ a[Len(a)] = "/" THEN a \o b
    ELSE a \o <<"/">> \o b

----------------------------------------------------------------------------
(* Message bodies and json.loads *)

BodyK1 == "{\"instruction\": \"import_file\", \"bucket_name\": \"b\", \"key_name\": \"k1\", \"details\": {\"destination_table\": \"t1\"}}"
BodyK2 == "{\"instruction\": \"import_file\", \"bucket_name\": \"b2\", \"key_name\": \"d/k2\", \"details\": {\"destination_table\": \"t2\"}}"
BodyNoop == "{\"instruction\": \"noop\"}"
BodyBad == "not json"
BodyNoDetails == "{\"instruction\": \"import_file\", \"bucket_name\": \"b\", \"key_name\": \"k3\"}"
BodyNoKey == "{\"instruction\": \"import_file\", \"bucket_name\": \"b\"}"

Bodies == {BodyK1, BodyK2, BodyNoop, BodyBad, BodyNoDetails, BodyNoKey}

Json(ok, keys, instruction, bucket_name, key_name, destination_table) ==
    [ok |-> ok, keys |-> keys, instruction |-> instruction,
     bucket_name |-> bucket_name, key_name |-> key_name,
     destination_table |-> destination_table]

NoJson == Json(FALSE, {}, "", "", <<>>, "")

\* json.loads: the parsed object, or ok = FALSE where the text is not JSON
json_loads(b) ==
    CASE b = BodyK1 ->
           Json(TRUE, {"instruction", "bucket_name", "key_name", "details"},
                "import_file", "b", <<"k", "1">>, "t1")
      [] b = BodyK2 ->
           Json(TRUE, {"instruction", "bucket_name", "key_name", "details"},
                "import_file", "b2", <<"d", "/", "k", "2">>, "t2")
      [] b = BodyNoop ->
           Json(TRUE, {"instruction"}, "noop", "", <<>>, "")
      [] b = BodyNoDetails ->
           Json(TRUE, {"instruction", "bucket_name", "key_name"},
                "import_file", "b", <<"k", "3">>, "")
      [] b = BodyNoKey ->
           Json(TRUE, {"instruction", "bucket_name"},
                "import_file", "b", <<>>, "")
      [] OTHER -> NoJson

TempDirs == { <<"/", "t">>, <<"t", "/">> }

----------------------------------------------------------------------------
(* The call log *)

Call(op, msg, bucket, key, path, table, ok) ==
    [op |-> op, msg |-> msg, bucket |-> bucket, key |-> key,
     path |-> path, table |-> table, ok |-> ok]

DbCall(op, ok) == Call(op, 0, "", <<>>, <<>>, "", ok)

Log(c) == calls' = Append(calls, c)

Abort(step) ==
    /\ pc' = "aborted"
    /\ fault' = step

----------------------------------------------------------------------------
(* Initial states *)

Init ==
    /\ cmd \in {"truncate_tables", "import_data"}
    /\ pc = "set_connection"
    /\ idx = 1
    /\ conn = "NONE"
    /\ fk = "enabled"
    /\ fault = ""
    /\ calls = <<>>
    /\ message = 0
    /\ message_body_json = NoJson
    /\ file_path = <<>>
    /\ delivered = {}
    /\ IF cmd = "truncate_tables"
       THEN /\ missing \in {{}} \cup {{tables[i]} : i \in 1..Len(tables)}
            /\ temp_dir = <<>>
            /\ queue = {}
            /\ body = <<>>
       ELSE /\ missing = {}
            /\ temp_dir \in TempDirs
            /\ \E n \in 0..MaxMsgs :
                 /\ queue = 1..n
                 /\ body \in [1..n -> Bodies]

----------------------------------------------------------------------------
(* truncate_tables *)

\* db.set_connection(...) returns
truncate_set_connection ==
    /\ cmd = "truncate_tables" /\ pc = "set_connection"
    /\ conn' = "OPEN"
    /\ Log(DbCall("set_connection", TRUE))
    /\ pc' = "for"
    /\ UNCHANGED <<cmd, temp_dir, missing, queue, body, delivered, message,
                   message_body_json, file_path, idx, fk, fault>>

\* db.set_connection(...) raises
truncate_set_connection_fault ==
    /\ cmd = "truncate_tables" /\ pc = "set_connection"
    /\ Log(DbCall("set_connection", FALSE))
    /\ Abort("set_connection")
    /\ UNCHANGED <<cmd, temp_dir, missing, queue, body, delivered, message,
                   message_body_json, file_path, idx, conn, fk>>

\* database.Database.truncate_table: raises on a table the database lacks
truncate_table_ok(table) == table \notin missing

\* variant: the loop steps over every other table
truncate_next_table_skips ==
    /\ cmd = "truncate_tables" /\ pc = "for"
    /\ idx <= Len(tables)
    /\ truncate_table_ok(tables[idx])
    /\ Log(Call("truncate_table", 0, "", <<>>, <<>>, tables[idx], TRUE))
    /\ idx' = idx + 2
    /\ UNCHANGED <<cmd, pc, temp_dir, missing, queue, body, delivered, message,
                   message_body_json, file_path, conn, fk, fault>>

\* one iteration of `for table in tables`, db.truncate_table(table) returns
truncate_next_table ==
    /\ cmd = "truncate_tables" /\ pc = "for"
    /\ idx <= Len(tables)
    /\ truncate_table_ok(tables[idx])
    /\ Log(Call("truncate_table", 0, "", <<>>, <<>>, tables[idx], TRUE))
    /\ idx' = idx + 1
    /\ UNCHANGED <<cmd, pc, temp_dir, missing, queue, body, delivered, message,
                   message_body_json, file_path, conn, fk, fault>>

\* variant: the fault is caught and the loop goes on
truncate_next_table_fault_continues ==
    /\ cmd = "truncate_tables" /\ pc = "for"
    /\ idx <= Len(tables)
    /\ ~truncate_table_ok(tables[idx])
    /\ Log(Call("truncate_table", 0, "", <<>>, <<>>, tables[idx], FALSE))
    /\ fault' = "truncate_table"
    /\ idx' = idx + 1
    /\ UNCHANGED <<cmd, pc, temp_dir, missing, queue, body, delivered, message,
                   message_body_json, file_path, conn, fk>>

\* one iteration of `for table in tables`, db.truncate_table(table) raises
truncate_next_table_fault ==
    /\ cmd = "truncate_tables" /\ pc = "for"
    /\ idx <= Len(tables)
    /\ ~truncate_table_ok(tables[idx])
    /\ Log(Call("truncate_table", 0, "", <<>>, <<>>, tables[idx], FALSE))
    /\ Abort("truncate_table")
    /\ UNCHANGED <<cmd, temp_dir, missing, queue, body, delivered, message,
                   message_body_json, file_path, idx, conn, fk>>

\* the list is exhausted
truncate_for_exit ==
    /\ cmd = "truncate_tables" /\ pc = "for"
    /\ idx > Len(tables)
    /\ pc' = "close"
    /\ UNCHANGED <<cmd, temp_dir, missing, queue, body, delivered, message,
                   message_body_json, file_path, idx, conn, fk, fault, calls>>

\* `db.close_connection`: the attribute is read and dropped, nothing is called
truncate_close_connection ==
    /\ cmd = "truncate_tables" /\ pc = "close"
    /\ pc' = "done"
    /\ UNCHANGED <<cmd, temp_dir, missing, queue, body, delivered, message,
                   message_body_json, file_path, idx, conn, fk, fault, calls>>

truncate_tables ==
    \/ truncate_set_connection
    \/ truncate_set_connection_fault
    \/ truncate_next_table
    \/ truncate_next_table_fault
    \/ truncate_for_exit
    \/ truncate_close_connection

----------------------------------------------------------------------------
(* import_data *)

\* db.set_connection(...) returns
import_set_connection ==
    /\ cmd = "import_data" /\ pc = "set_connection"
    /\ conn' = "OPEN"
    /\ Log(DbCall("set_connection", TRUE))
    /\ pc' = "disable_fk"
    /\ UNCHANGED <<cmd, temp_dir, missing, queue, body, delivered, message,
                   message_body_json, file_path, idx, fk, fault>>

\* db.set_connection(...) raises
import_set_connection_fault ==
    /\ cmd = "import_data" /\ pc = "set_connection"
    /\ Log(DbCall("set_connection", FALSE))
    /\ Abort("set_connection")
    /\ UNCHANGED <<cmd, temp_dir, missing, queue, body, delivered, message,
                   message_body_json, file_path, idx, conn, fk>>

\* variant: the checks are not disabled
import_disable_fk_omitted ==
    /\ cmd = "import_data" /\ pc = "disable_fk"
    /\ pc' = "get_first"
    /\ UNCHANGED <<cmd, temp_dir, missing, queue, body, delivered, message,
                   message_body_json, file_path, idx, conn, fk, fault, calls>>

\* db.disable_foreign_key_constraints() returns
import_disable_fk ==
    /\ cmd = "import_data" /\ pc = "disable_fk"
    /\ fk' = "disabled"
    /\ Log(DbCall("disable_foreign_key_constraints", TRUE))
    /\ pc' = "get_first"
    /\ UNCHANGED <<cmd, temp_dir, missing, queue, body, delivered, message,
                   message_body_json, file_path, idx, conn, fault>>

\* db.disable_foreign_key_constraints() raises
import_disable_fk_fault ==
    /\ cmd = "import_data" /\ pc = "disable_fk"
    /\ Log(DbCall("disable_foreign_key_constraints", FALSE))
    /\ Abort("disable_foreign_key_constraints")
    /\ UNCHANGED <<cmd, temp_dir, missing, queue, body, delivered, message,
                   message_body_json, file_path, idx, conn, fk>>

\* cloud.Queue.get_message: the next available message, None (0) when there
\* is none; a message handed to this run is not available to it again
get_message(m) ==
    /\ IF queue \ delivered = {} THEN m = 0 ELSE m \in queue \ delivered
    /\ message' = m
    /\ delivered' = IF m = 0 THEN delivered ELSE delivered \cup {m}
    /\ Log(Call("get_message", m, "", <<>>, <<>>, "", TRUE))

\* cloud.Queue.get_message raises
get_message_fault ==
    /\ Log(Call("get_message", 0, "", <<>>, <<>>, "", FALSE))
    /\ Abort("get_message")
    /\ UNCHANGED <<message, delivered>>

\* message = queue.get_message() before the loop
import_get_first ==
    /\ cmd = "import_data" /\ pc = "get_first"
    /\ \E m \in queue \cup {0} : get_message(m)
    /\ pc' = "while"
    /\ UNCHANGED <<cmd, temp_dir, missing, queue, body, message_body_json,
                   file_path, idx, conn, fk, fault>>

import_get_first_fault ==
    /\ cmd = "import_data" /\ pc = "get_first"
    /\ get_message_fault
    /\ UNCHANGED <<cmd, temp_dir, missing, queue, body, message_body_json,
                   file_path, idx, conn, fk>>

\* `while message is not None`: a message, enter the body
import_while_enter ==
    /\ cmd = "import_data" /\ pc = "while"
    /\ message # 0
    /\ pc' = "parse"
    /\ UNCHANGED <<cmd, temp_dir, missing, queue, body, delivered, message,
                   message_body_json, file_path, idx, conn, fk, fault, calls>>

\* variant: None does not end the loop, the queue is polled again
import_while_exit_refetches ==
    /\ cmd = "import_data" /\ pc = "while"
    /\ message = 0
    /\ pc' = "get_next"
    /\ UNCHANGED <<cmd, temp_dir, missing, queue, body, delivered, message,
                   message_body_json, file_path, idx, conn, fk, fault, calls>>

\* `while message is not None`: None, leave the loop
import_while_exit ==
    /\ cmd = "import_data" /\ pc = "while"
    /\ message = 0
    /\ pc' = "enable_fk"
    /\ UNCHANGED <<cmd, temp_dir, missing, queue, body, delivered, message,
                   message_body_json, file_path, idx, conn, fk, fault, calls>>

\* json.loads(message['Body']) and message_body_json['instruction'] succeed
import_parse ==
    /\ cmd = "import_data" /\ pc = "parse"
    /\ json_loads(body[message]).ok
    /\ "instruction" \in json_loads(body[message]).keys
    /\ message_body_json' = json_loads(body[message])
    /\ pc' = "if"
    /\ UNCHANGED <<cmd, temp_dir, missing, queue, body, delivered, message,
                   file_path, idx, conn, fk, fault, calls>>

\* json.loads raises (not JSON), or there is no 'instruction' (KeyError)
import_parse_fault ==
    /\ cmd = "import_data" /\ pc = "parse"
    /\ ~(/\ json_loads(body[message]).ok
         /\ "instruction" \in json_loads(body[message]).keys)
    /\ Abort("json")
    /\ UNCHANGED <<cmd, temp_dir, missing, queue, body, delivered, message,
                   message_body_json, file_path, idx, conn, fk, calls>>

\* `if instruction == 'import_file'`: taken
import_if_import_file ==
    /\ cmd = "import_data" /\ pc = "if"
    /\ message_body_json.instruction = "import_file"
    /\ pc' = "download"
    /\ UNCHANGED <<cmd, temp_dir, missing, queue, body, delivered, message,
                   message_body_json, file_path, idx, conn, fk, fault, calls>>

\* variant: the removal is outside the `if`, an unrecognized message is removed
import_if_skip_removes ==
    /\ cmd = "import_data" /\ pc = "if"
    /\ message_body_json.instruction # "import_file"
    /\ pc' = "remove_message"
    /\ UNCHANGED <<cmd, temp_dir, missing, queue, body, delivered, message,
                   message_body_json, file_path, idx, conn, fk, fault, calls>>

\* variant: the fetch at the end is inside the `if`, an unrecognized message
\* is looped on
import_if_skip_no_refetch ==
    /\ cmd = "import_data" /\ pc = "if"
    /\ message_body_json.instruction # "import_file"
    /\ pc' = "while"
    /\ UNCHANGED <<cmd, temp_dir, missing, queue, body, delivered, message,
                   message_body_json, file_path, idx, conn, fk, fault, calls>>

\* `if instruction == 'import_file'`: not taken, on to the fetch at the end
\* of the loop body
import_if_skip ==
    /\ cmd = "import_data" /\ pc = "if"
    /\ message_body_json.instruction # "import_file"
    /\ pc' = "get_next"
    /\ UNCHANGED <<cmd, temp_dir, missing, queue, body, delivered, message,
                   message_body_json, file_path, idx, conn, fk, fault, calls>>

\* variant: the key is joined to temp_dir without taking its basename
import_file_path_no_basename == join(temp_dir, message_body_json.key_name)

\* file_path = os.path.join(temp_dir, os.path.basename(key_name))
import_file_path == join(temp_dir, basename(message_body_json.key_name))

\* file_path is computed and cloudstorage.download_file(...) returns
import_download ==
    /\ cmd = "import_data" /\ pc = "download"
    /\ {"key_name", "bucket_name"} \subseteq message_body_json.keys
    /\ file_path' = import_file_path
    /\ Log(Call("download_file", 0, message_body_json.bucket_name,
                message_body_json.key_name, import_file_path, "", TRUE))
    /\ pc' = "import_file"
    /\ UNCHANGED <<cmd, temp_dir, missing, queue, body, delivered, message,
                   message_body_json, idx, conn, fk, fault>>

\* variant: a `finally` re-enables the checks when the download raises
import_download_fault_reenables ==
    /\ cmd = "import_data" /\ pc = "download"
    /\ {"key_name", "bucket_name"} \subseteq message_body_json.keys
    /\ file_path' = import_file_path
    /\ calls' = calls \o
         << Call("download_file", 0, message_body_json.bucket_name,
                 message_body_json.key_name, import_file_path, "", FALSE),
            DbCall("enable_foreign_key_constraints", TRUE) >>
    /\ fk' = "enabled"
    /\ Abort("download_file")
    /\ UNCHANGED <<cmd, temp_dir, missing, queue, body, delivered, message,
                   message_body_json, idx, conn>>

\* file_path is computed and cloudstorage.download_file(...) raises
import_download_fault ==
    /\ cmd = "import_data" /\ pc = "download"
    /\ {"key_name", "bucket_name"} \subseteq message_body_json.keys
    /\ file_path' = import_file_path
    /\ Log(Call("download_file", 0, message_body_json.bucket_name,
                message_body_json.key_name, import_file_path, "", FALSE))
    /\ Abort("download_file")
    /\ UNCHANGED <<cmd, temp_dir, missing, queue, body, delivered, message,
                   message_body_json, idx, conn, fk>>

\* message_body_json['key_name'] or ['bucket_name'] raises KeyError
import_download_keyerror ==
    /\ cmd = "import_data" /\ pc = "download"
    /\ ~({"key_name", "bucket_name"} \subseteq message_body_json.keys)
    /\ Abort("KeyError")
    /\ UNCHANGED <<cmd, temp_dir, missing, queue, body, delivered, message,
                   message_body_json, file_path, idx, conn, fk, calls>>

\* db.import_file(file_path, destination_table) returns
import_import_file ==
    /\ cmd = "import_data" /\ pc = "import_file"
    /\ "details" \in message_body_json.keys
    /\ Log(Call("import_file", 0, "", <<>>, file_path,
                message_body_json.destination_table, TRUE))
    /\ pc' = "remove_message"
    /\ UNCHANGED <<cmd, temp_dir, missing, queue, body, delivered, message,
                   message_body_json, file_path, idx, conn, fk, fault>>

\* variant: the fault of the bulk-load is caught and the message is removed
import_import_file_fault_swallowed ==
    /\ cmd = "import_data" /\ pc = "import_file"
    /\ "details" \in message_body_json.keys
    /\ Log(Call("import_file", 0, "", <<>>, file_path,
                message_body_json.destination_table, FALSE))
    /\ pc' = "remove_message"
    /\ UNCHANGED <<cmd, temp_dir, missing, queue, body, delivered, message,
                   message_body_json, file_path, idx, conn, fk, fault>>

\* db.import_file(file_path, destination_table) raises
import_import_file_fault ==
    /\ cmd = "import_data" /\ pc = "import_file"
    /\ "details" \in message_body_json.keys
    /\ Log(Call("import_file", 0, "", <<>>, file_path,
                message_body_json.destination_table, FALSE))
    /\ Abort("import_file")
    /\ UNCHANGED <<cmd, temp_dir, missing, queue, body, delivered, message,
                   message_body_json, file_path, idx, conn, fk>>

\* message_body_json['details'] raises KeyError
import_import_file_keyerror ==
    /\ cmd = "import_data" /\ pc = "import_file"
    /\ "details" \notin message_body_json.keys
    /\ Abort("KeyError")
    /\ UNCHANGED <<cmd, temp_dir, missing, queue, body, delivered, message,
                   message_body_json, file_path, idx, conn, fk, calls>>

\* cloud.Queue.remove_message: the message leaves the queue
remove_message(m) == queue' = queue \ {m}

\* queue.remove_message(message) returns
import_remove_message ==
    /\ cmd = "import_data" /\ pc = "remove_message"
    /\ remove_message(message)
    /\ Log(Call("remove_message", message, "", <<>>, <<>>, "", TRUE))
    /\ pc' = "get_next"
    /\ UNCHANGED <<cmd, temp_dir, missing, body, delivered, message,
                   message_body_json, file_path, idx, conn, fk, fault>>

\* queue.remove_message(message) raises: the service may or may not have
\* removed the message
import_remove_message_fault ==
    /\ cmd = "import_data" /\ pc = "remove_message"
    /\ \/ remove_message(message)
       \/ UNCHANGED queue
    /\ Log(Call("remove_message", message, "", <<>>, <<>>, "", FALSE))
    /\ Abort("remove_message")
    /\ UNCHANGED <<cmd, temp_dir, missing, body, delivered, message,
                   message_body_json, file_path, idx, conn, fk>>

\* message = queue.get_message() at the end of the loop body
import_get_next ==
    /\ cmd = "import_data" /\ pc = "get_next"
    /\ \E m \in queue \cup {0} : get_message(m)
    /\ pc' = "while"
    /\ UNCHANGED <<cmd, temp_dir, missing, queue, body, message_body_json,
                   file_path, idx, conn, fk, fault>>

import_get_next_fault ==
    /\ cmd = "import_data" /\ pc = "get_next"
    /\ get_message_fault
    /\ UNCHANGED <<cmd, temp_dir, missing, queue, body, message_body_json,
                   file_path, idx, conn, fk>>

\* db.enable_foreign_key_constraints() returns
import_enable_fk ==
    /\ cmd = "import_data" /\ pc = "enable_fk"
    /\ fk' = "enabled"
    /\ Log(DbCall("enable_foreign_key_constraints", TRUE))
    /\ pc' = "close"
    /\ UNCHANGED <<cmd, temp_dir, missing, queue, body, delivered, message,
                   message_body_json, file_path, idx, conn, fault>>

\* db.enable_foreign_key_constraints() raises
import_enable_fk_fault ==
    /\ cmd = "import_data" /\ pc = "enable_fk"
    /\ Log(DbCall("enable_foreign_key_constraints", FALSE))
    /\ Abort("enable_foreign_key_constraints")
    /\ UNCHANGED <<cmd, temp_dir, missing, queue, body, delivered, message,
                   message_body_json, file_path, idx, conn, fk>>

\* `db.close_connection`: the attribute is read and dropped, nothing is called
import_close_connection ==
    /\ cmd = "import_data" /\ pc = "close"
    /\ pc' = "done"
    /\ UNCHANGED <<cmd, temp_dir, missing, queue, body, delivered, message,
                   message_body_json, file_path, idx, conn, fk, fault, calls>>

import_data ==
    \/ import_set_connection
    \/ import_set_connection_fault
    \/ import_disable_fk
    \/ import_disable_fk_fault
    \/ import_get_first
    \/ import_get_first_fault
    \/ import_while_enter
    \/ import_while_exit
    \/ import_parse
    \/ import_parse_fault
    \/ import_if_import_file
    \/ import_if_skip
    \/ import_download
    \/ import_download_fault
    \/ import_download_keyerror
    \/ import_import_file
    \/ import_import_file_fault
    \/ import_import_file_keyerror
    \/ import_remove_message
    \/ import_remove_message_fault
    \/ import_get_next
    \/ import_get_next_fault
    \/ import_enable_fk
    \/ import_enable_fk_fault
    \/ import_close_connection

----------------------------------------------------------------------------
(* Specifications *)

Next == truncate_tables \/ import_data

Spec == Init /\ [][Next]_vars

\* The commands are sequential programs whose calls block and then return or
\* raise: a command that can take a step takes one.
LiveSpec == Spec /\ WF_vars(Next)

Terminated == pc \in {"done", "aborted"}

TypeOK ==
    /\ cmd \in {"truncate_tables", "import_data"}
    /\ conn \in {"NONE", "OPEN", "CLOSED"}
    /\ fk \in {"enabled", "disabled"}
    /\ delivered \subseteq DOMAIN body
    /\ queue \subseteq DOMAIN body
    /\ message \in {0} \cup delivered
    /\ idx \in 1..(Len(tables) + 1)

----------------------------------------------------------------------------
(* Reading the call log *)

Idx(op) == {i \in DOMAIN calls : calls[i].op = op}

TruncateCalls == SelectSeq(calls, LAMBDA c : c.op = "truncate_table")

TruncateOk(table) == Call("truncate_table", 0, "", <<>>, <<>>, table, TRUE)

\* a fetch that handed message m (not None) to the run
Fetched(i) ==
    /\ calls[i].op = "get_message"
    /\ calls[i].ok
    /\ calls[i].msg # 0

\* a fetch that returned None
FetchedNone(i) ==
    /\ calls[i].op = "get_message"
    /\ calls[i].ok
    /\ calls[i].msg = 0

Recognized(m) ==
    /\ json_loads(body[m]).ok
    /\ "instruction" \in json_loads(body[m]).keys
    /\ json_loads(body[m]).instruction = "import_file"

Unrecognized(m) ==
    /\ json_loads(body[m]).ok
    /\ "instruction" \in json_loads(body[m]).keys
    /\ json_loads(body[m]).instruction # "import_file"

\* the work on the message fetched at i is over: the run went on to the next
\* fetch
Processed(i) ==
    \/ \E j \in Idx("get_message") : j > i
    \/ pc = "get_next" /\ \A j \in Idx("get_message") : j <= i

LocalPath(m) == join(temp_dir, basename(json_loads(body[m]).key_name))

DownloadOf(m, ok) ==
    Call("download_file", 0, json_loads(body[m]).bucket_name,
         json_loads(body[m]).key_name, LocalPath(m), "", ok)

ImportOf(m, ok) ==
    Call("import_file", 0, "", <<>>, LocalPath(m),
         json_loads(body[m]).destination_table, ok)

----------------------------------------------------------------------------
(* truncate_tables: C1, C7 *)

\* C1 as stated: a fault-free truncate_tables makes exactly one truncate call
\* per table of the hardcoded list, in listed order, and the list has exactly
\* 32 names, so 32 truncate calls are made.
C1_ThirtyTwoTruncates ==
    (cmd = "truncate_tables" /\ pc = "done") =>
        /\ Len(tables) = 32
        /\ TruncateCalls = [i \in 1..32 |-> TruncateOk(tables[i])]

\* C1 amended: a fault-free truncate_tables makes exactly one truncate call
\* per table of the hardcoded list, in listed order, and the list has exactly
\* 34 names, so 34 truncate calls are made.
C1_OneTruncatePerTable ==
    (cmd = "truncate_tables" /\ pc = "done") =>
        /\ Len(tables) = 34
        /\ Cardinality({tables[i] : i \in 1..Len(tables)}) = 34
        /\ TruncateCalls = [i \in 1..34 |-> TruncateOk(tables[i])]

C1_Witness ==
    /\ cmd = "truncate_tables" /\ pc = "done"
    /\ missing = {}
    /\ Len(TruncateCalls) = Len(tables)
    /\ TruncateCalls[33].table = "public.street_suffix_aut"

\* C7: when the truncate call for the table at position i faults, the command
\* aborts there: the tables before i were truncated exactly once each, in
\* order, the call for table i is the last call made, and no table after i
\* is ever truncated.
C7_AbortAtFaultingTable ==
    (cmd = "truncate_tables" /\ fault = "truncate_table") =>
        /\ pc = "aborted"
        /\ idx \in 1..Len(tables)
        /\ tables[idx] \in missing
        /\ Len(TruncateCalls) = idx
        /\ \A j \in 1..(idx - 1) : TruncateCalls[j] = TruncateOk(tables[j])
        /\ TruncateCalls[idx].table = tables[idx]
        /\ ~TruncateCalls[idx].ok
        /\ calls[Len(calls)] = TruncateCalls[idx]
        /\ \A j \in (idx + 1)..Len(tables) :
             \A k \in DOMAIN calls : calls[k].table # tables[j]

C7_Witness ==
    /\ cmd = "truncate_tables" /\ pc = "aborted"
    /\ fault = "truncate_table"
    /\ missing = {"public.locality"}
    /\ Len(TruncateCalls) = 16

----------------------------------------------------------------------------
(* import_data: C2, C3, C5, C6, C8, C9 *)

\* C2: every fetched 'import_file' message whose processing does not fault
\* gets exactly one download call (its bucket_name and key_name, to temp_dir
\* joined with the basename of key_name) followed by exactly one bulk-load
\* call of that local path into its destination table; and no download or
\* bulk-load call is made for anything but the message just fetched.
C2_OneDownloadOneLoadPerMessage ==
    cmd = "import_data" =>
        /\ \A i \in DOMAIN calls :
             (Fetched(i) /\ Recognized(calls[i].msg) /\ Processed(i)) =>
                 /\ i + 3 <= Len(calls)
                 /\ calls[i + 1] = DownloadOf(calls[i].msg, TRUE)
                 /\ calls[i + 2] = ImportOf(calls[i].msg, TRUE)
                 /\ calls[i + 3].op = "remove_message"
                 /\ i + 4 <= Len(calls) => calls[i + 4].op = "get_message"
        /\ \A k \in Idx("download_file") :
             /\ k > 1
             /\ Fetched(k - 1)
             /\ Recognized(calls[k - 1].msg)
             /\ calls[k] = DownloadOf(calls[k - 1].msg, calls[k].ok)
        /\ \A k \in Idx("import_file") :
             /\ k > 2
             /\ Fetched(k - 2)
             /\ calls[k - 1] = DownloadOf(calls[k - 2].msg, TRUE)
             /\ calls[k] = ImportOf(calls[k - 2].msg, calls[k].ok)

C2_Witness ==
    /\ cmd = "import_data" /\ pc = "done"
    /\ temp_dir = <<"/", "t">>
    /\ \E i \in DOMAIN calls :
         /\ Fetched(i) /\ body[calls[i].msg] = BodyK2
         /\ calls[i + 1] = Call("download_file", 0, "b2", <<"d", "/", "k", "2">>,
                                <<"/", "t", "/", "k", "2">>, "", TRUE)
         /\ calls[i + 2] = Call("import_file", 0, "", <<>>,
                                <<"/", "t", "/", "k", "2">>, "t2", TRUE)

\* C3: remove_message is called for a message only after the download call
\* and the bulk-load call for that same message have both returned; when
\* either of them faults the command aborts, remove_message has not been
\* called for that message, and the message is still in the queue.
C3_RemoveOnlyAfterImport ==
    cmd = "import_data" =>
        /\ \A k \in Idx("remove_message") :
             /\ k > 3
             /\ Fetched(k - 3)
             /\ calls[k - 3].msg = calls[k].msg
             /\ calls[k - 2] = DownloadOf(calls[k].msg, TRUE)
             /\ calls[k - 1] = ImportOf(calls[k].msg, TRUE)
        /\ fault \in {"download_file", "import_file"} =>
             /\ pc = "aborted"
             /\ calls[Len(calls)].op = fault
             /\ ~calls[Len(calls)].ok
             /\ message # 0
             /\ message \in queue
             /\ \A k \in Idx("remove_message") : calls[k].msg # message

C3_Witness ==
    /\ cmd = "import_data" /\ pc = "aborted"
    /\ fault = "import_file"
    /\ Idx("remove_message") # {}
    /\ message \in queue

\* C5: a fetched message whose instruction is not 'import_file' gets no
\* download, bulk-load or remove_message call; the next call is the next
\* fetch; and on normal completion the queue holds exactly the unrecognized
\* messages, every fetched 'import_file' message having been removed.
C5_UnrecognizedSkipped ==
    cmd = "import_data" =>
        /\ \A i \in DOMAIN calls :
             (Fetched(i) /\ Unrecognized(calls[i].msg)) =>
                 /\ i < Len(calls) => calls[i + 1].op = "get_message"
                 /\ calls[i].msg \in queue
                 /\ \A k \in Idx("remove_message") : calls[k].msg # calls[i].msg
        /\ pc = "done" =>
             /\ delivered = DOMAIN body
             /\ \A m \in delivered : Unrecognized(m) => m \in queue
             /\ \A m \in delivered : Recognized(m) => m \notin queue
             /\ queue = {m \in DOMAIN body : Unrecognized(m)}

C5_Witness ==
    /\ cmd = "import_data" /\ pc = "done"
    /\ body = <<BodyK1, BodyNoop>>
    /\ queue = {2}
    /\ \E i \in DOMAIN calls :
         /\ calls[i].op = "download_file"
         /\ calls[i].bucket = "b" /\ calls[i].key = <<"k", "1">>
         /\ calls[i + 1].op = "import_file" /\ calls[i + 1].table = "t1"
         /\ calls[i + 2] = Call("remove_message", 1, "", <<>>, <<>>, "", TRUE)
    /\ \E i \in DOMAIN calls : Fetched(i) /\ calls[i].msg = 2
    /\ FetchedNone(Len(calls) - 1)

\* C6: after a get_message call has returned None no further get_message,
\* download, bulk-load or remove_message call is made: the only call that
\* follows is the re-enabling of the foreign-key checks, and the command is
\* past its loop.
C6_LoopEndsAtFirstNone ==
    cmd = "import_data" =>
        \A i \in DOMAIN calls : FetchedNone(i) =>
            /\ pc \in {"while", "enable_fk", "close", "done", "aborted"}
            /\ pc = "aborted" => fault = "enable_foreign_key_constraints"
            /\ Len(calls) <= i + 1
            /\ \A j \in (i + 1)..Len(calls) :
                 calls[j].op = "enable_foreign_key_constraints"

C6_Witness ==
    /\ cmd = "import_data" /\ pc = "done"
    /\ Cardinality(Idx("get_message")) = 3
    /\ FetchedNone(Len(calls) - 1)
    /\ calls[Len(calls)] = DbCall("enable_foreign_key_constraints", TRUE)

\* C8: the foreign-key checks are disabled exactly once, after the connection
\* is opened and before the first get_message call; every bulk-load call is
\* made while they are disabled; and a fault-free run re-enables them exactly
\* once, after the last bulk-load and after the fetch that returned None.
C8_ForeignKeyChecksBracketLoads ==
    cmd = "import_data" =>
        /\ Cardinality(Idx("disable_foreign_key_constraints")) <= 1
        /\ Cardinality(Idx("enable_foreign_key_constraints")) <= 1
        /\ \A d \in Idx("disable_foreign_key_constraints") :
             d = 2 /\ calls[1] = DbCall("set_connection", TRUE)
        /\ \A g \in Idx("get_message") :
             g > 2 /\ calls[2] = DbCall("disable_foreign_key_constraints", TRUE)
        /\ pc = "import_file" => fk = "disabled"
        /\ \A b \in Idx("import_file") :
             /\ calls[2] = DbCall("disable_foreign_key_constraints", TRUE)
             /\ \A e \in Idx("enable_foreign_key_constraints") : b < e
        /\ pc = "done" =>
             /\ Idx("disable_foreign_key_constraints") = {2}
             /\ Idx("enable_foreign_key_constraints") = {Len(calls)}
             /\ calls[Len(calls)].ok
             /\ FetchedNone(Len(calls) - 1)
             /\ fk = "enabled"

C8_Witness ==
    /\ cmd = "import_data" /\ pc = "done"
    /\ Cardinality(Idx("import_file")) = 2
    /\ fk = "enabled"

\* C9: when a step inside the loop faults (parsing the body, a missing key,
\* the download, the bulk-load, the removal or the fetch), the command ends
\* with the foreign-key checks still disabled: enable_foreign_key_constraints
\* has not been called, and no message is fetched after the fault.
C9_AbortLeavesChecksDisabled ==
    (cmd = "import_data" /\
     fault \in {"json", "KeyError", "download_file", "import_file",
                "remove_message", "get_message"}) =>
        /\ pc = "aborted"
        /\ fk = "disabled"
        /\ Idx("enable_foreign_key_constraints") = {}
        /\ fault \notin {"json", "KeyError"} =>
             calls[Len(calls)].op = fault /\ ~calls[Len(calls)].ok
        /\ fault # "get_message" =>
             \E g \in Idx("get_message") :
                 /\ Fetched(g) /\ calls[g].msg = message
                 /\ \A j \in Idx("get_message") : j <= g

C9_Witness ==
    /\ cmd = "import_data" /\ pc = "aborted"
    /\ fault = "json"
    /\ fk = "disabled"
    /\ Cardinality(Idx("get_message")) = 2

----------------------------------------------------------------------------
(* C4 *)

\* C4: a command that opened the connection and completes normally has
\* called the close operation of the database client exactly once, as its
\* last call, and the connection is closed.
C4_ConnectionClosedAtEnd ==
    pc = "done" =>
        /\ conn = "CLOSED"
        /\ Cardinality(Idx("close_connection")) = 1
        /\ calls[Len(calls)].op = "close_connection"

----------------------------------------------------------------------------
(* C10 *)

GetCalls == Cardinality(Idx("get_message"))

\* C10: with a finite queue, no producers and no redelivery to the same run,
\* every run of import_data ends, and a fault-free run ends after exactly
\* N + 1 get_message calls, N being the number of messages delivered.
C10_Terminates ==
    /\ [](cmd = "import_data" /\ pc = "done" =>
            /\ GetCalls = Cardinality(delivered) + 1
            /\ Cardinality(delivered) = Len(body))
    /\ <>Terminated

C10_Witness ==
    /\ cmd = "import_data" /\ pc = "done"
    /\ Len(body) = 2
    /\ \A m \in DOMAIN body : Unrecognized(m)
    /\ GetCalls = 3

====
